---- MODULE Spec2Model ----
(***************************************************************************)
(* Model of the PPG biofeedback game (ppg_flight_simulator/quest_01):      *)
(* GameManager (game_logic.py), the acquisition worker of ArduinoManager   *)
(* (arduino_manager.py) and the UIManager handlers that drive them         *)
(* (ui_manager.py); and of the heart-rate estimate of PPGProcessor         *)
(* (mandala/ppg_processor.py).                                             *)
(*                                                                         *)
(* Units.  Times are integers in hundredths of a second (10.0 s = 1000),   *)
(* so that a 100 Hz stream has integer timestamps.  The accumulated        *)
(* metrics time_in_target, time_below_target and the two streak counters   *)
(* are in the same unit (time_delta = 0.1 s = 10).  baseline_value and the *)
(* target are exact rationals [num, den] with den > 0; Python's floats     *)
(* differ from them only by rounding.  An attribute holding Python's None  *)
(* is the empty tuple, a set attribute is a one-element tuple.             *)
(***************************************************************************)
EXTENDS Integers, Sequences, FiniteSets, TLC

VARIABLES gm,        \* the GameManager object (its attributes as a record)
          obs,       \* history: the pass/fail runs observed in this attempt
          last_call, \* history: the last operation and the state it was called in
          last_ts,   \* the environment's time: timestamp of the last sample fed,
                     \* or the last reading of the clock
          am,        \* the ArduinoManager object
          threads,   \* the reader threads: position and locals of each
          ui,        \* the UIManager object and the position of the main thread
          ppg,       \* the PPGProcessor object (mandala/ppg_processor.py)
          ret,       \* history: the value returned by the last call of a
                     \* PPGProcessor or ChallengeManager method
          cm,        \* the ChallengeManager object (mandala/challenge_manager.py)
          notified   \* history: the states that the last GameManager call
                     \* passed to state_callback, in order

sys == <<am, threads, ui>>
mandala == <<ppg, ret, cm>>
vars ==
    <<gm, obs, last_call, last_ts, am, threads, ui, ppg, ret, cm, notified>>

-----------------------------------------------------------------------------
(* Bounds of the model *)

MaxCal == 2        \* calibration samples collected per attempt
MaxScored == 4     \* samples scored per attempt

\* sample timestamps and raw values offered by the environment
Times == {0, 500, 1000, 2500, 4000, 5500, 7000}
Values == {500, 550}

-----------------------------------------------------------------------------
(* Python values *)

None == <<>>
Some(x) == <<x>>
Val(o) == o[1]

Min(a, b) == IF a <= b THEN a ELSE b
Max(a, b) == IF a >= b THEN a ELSE b
Abs(a) == IF a >= 0 THEN a ELSE -a

\* exact rationals standing for Python floats: num / den with den > 0,
\* compared by cross-multiplication
Rat(n, d) == [num |-> n, den |-> d]
RatAdd(a, b) == Rat(a.num * b.den + b.num * a.den, a.den * b.den)
RatSub(a, b) == Rat(a.num * b.den - b.num * a.den, a.den * b.den)
RECURSIVE GCD(_, _)
GCD(a, b) == IF b = 0 THEN a ELSE GCD(b, a % b)
\* the same rational in lowest terms
Reduced(r) ==
    LET g == GCD(Abs(r.num), r.den) IN Rat(r.num \div g, r.den \div g)
RatEq(a, b) == a.num * b.den = b.num * a.den
RatLeq(a, b) == a.num * b.den <= b.num * a.den
RatGeqInt(n, r) == n * r.den >= r.num      \* n >= r
RatLeqInt(n, r) == n * r.den <= r.num      \* n <= r

\* Python's sum() of a list, by halves (a short recursion on long lists)
RECURSIVE sum(_)
sum(s) ==
    IF Len(s) = 0 THEN 0
    ELSE IF Len(s) = 1 THEN s[1]
    ELSE sum(SubSeq(s, 1, Len(s) \div 2))
         + sum(SubSeq(s, Len(s) \div 2 + 1, Len(s)))

-----------------------------------------------------------------------------
(* GameManager: class constants and configuration (game_logic.py) *)

STATE_IDLE == "idle"
STATE_CALIBRATING == "calibrating"
STATE_CHALLENGE == "challenge"
STATE_COMPLETE == "complete"

MODE_FIRE == "fire"
MODE_WAVE == "wave"

calibration_start_time == 300
calibration_end_time == 1000
challenge_start_time == 1000
ramp_delta == 50
fire_max_duration == 4000
wave_max_duration == 7000
wave_transition_time == 4000
time_delta == 10
default_baseline == 500

\* GameManager.__init__
GameManager ==
    [ game_mode |-> MODE_FIRE,
      challenge_start_time |-> challenge_start_time,
      fire_max_duration |-> fire_max_duration,
      wave_max_duration |-> wave_max_duration,
      wave_transition_time |-> wave_transition_time,
      max_duration |-> fire_max_duration,
      state |-> STATE_IDLE,
      start_time |-> None,
      current_time |-> 0,
      baseline_value |-> None,
      calibration_values |-> <<>>,
      current_value |-> None,
      score |-> 0,
      time_in_target |-> 0,
      time_below_target |-> 0,
      max_consecutive_target |-> 0,
      current_consecutive_target |-> 0 ]

set_game_mode(g, mode) ==
    IF mode = MODE_FIRE
    THEN [g EXCEPT !.game_mode = MODE_FIRE,
                   !.max_duration = g.fire_max_duration]
    ELSE IF mode = MODE_WAVE
    THEN [g EXCEPT !.game_mode = MODE_WAVE,
                   !.max_duration = g.wave_max_duration]
    ELSE g

\* a start_game that leaves the performance metrics of the last attempt
start_game_keeps_metrics(g) ==
    [g EXCEPT !.state = STATE_CALIBRATING,
              !.start_time = None,
              !.current_time = 0,
              !.baseline_value = None,
              !.calibration_values = <<>>,
              !.current_value = None]

\* start_game that keeps the start time of the previous attempt
start_game_keeps_start_time(g) ==
    [g EXCEPT !.state = STATE_CALIBRATING,
              !.current_time = 0,
              !.baseline_value = None,
              !.calibration_values = <<>>,
              !.current_value = None,
              !.score = 0,
              !.time_in_target = 0,
              !.time_below_target = 0,
              !.max_consecutive_target = 0,
              !.current_consecutive_target = 0]

start_game(g) ==
    [g EXCEPT !.state = STATE_CALIBRATING,
              !.start_time = None,
              !.current_time = 0,
              !.baseline_value = None,
              !.calibration_values = <<>>,
              !.current_value = None,
              !.score = 0,
              !.time_in_target = 0,
              !.time_below_target = 0,
              !.max_consecutive_target = 0,
              !.current_consecutive_target = 0]

\* reset_game that forgets the baseline and the calibration samples
reset_game_keeps_baseline(g) ==
    [g EXCEPT !.state = STATE_IDLE,
              !.start_time = None,
              !.current_time = 0,
              !.current_value = None,
              !.score = 0,
              !.time_in_target = 0,
              !.time_below_target = 0,
              !.max_consecutive_target = 0,
              !.current_consecutive_target = 0]

reset_game(g) ==
    [g EXCEPT !.state = STATE_IDLE,
              !.start_time = None,
              !.current_time = 0,
              !.baseline_value = None,
              !.calibration_values = <<>>,
              !.current_value = None,
              !.score = 0,
              !.time_in_target = 0,
              !.time_below_target = 0,
              !.max_consecutive_target = 0,
              !.current_consecutive_target = 0]

_complete_calibration(g) ==
    IF g.calibration_values # <<>>
    THEN [g EXCEPT !.baseline_value =
             Some(Rat(sum(g.calibration_values), Len(g.calibration_values)))]
    ELSE [g EXCEPT !.baseline_value = Some(Rat(default_baseline, 1))]

\* the exception a float division by zero raises
ZeroDivisionError == [raised |-> "ZeroDivisionError"]

\* a ramp whose position is not clamped to 1.0
ramp_up_unclamped(baseline, t, from, duration) ==
    RatAdd(baseline, Rat((t - from) * ramp_delta, duration))

\* baseline + min(1.0, (t - from) / duration) * ramp_delta
ramp_up(baseline, t, from, duration) ==
    IF duration = 0 THEN ZeroDivisionError
    ELSE RatAdd(baseline, Rat(Min(duration, t - from) * ramp_delta, duration))

\* a ramp down that starts from the baseline instead of the peak
ramp_down_from_baseline(baseline, t, from, duration) ==
    RatSub(baseline, Rat(Min(duration, t - from) * ramp_delta, duration))

\* (baseline + ramp_delta) - min(1.0, (t - from) / duration) * ramp_delta
ramp_down(baseline, t, from, duration) ==
    IF duration = 0 THEN ZeroDivisionError
    ELSE RatSub(RatAdd(baseline, Rat(ramp_delta, 1)),
                Rat(Min(duration, t - from) * ramp_delta, duration))

\* a target that ramps up from the first sample on
_calculate_target_ramps_from_zero(g, time_value) ==
    ramp_up(Val(g.baseline_value), time_value, 0, fire_max_duration)

\* the target (a rational) at elapsed time time_value; g.baseline_value is set
_calculate_target(g, time_value) ==
    LET baseline == Val(g.baseline_value) IN
    IF time_value < g.challenge_start_time THEN baseline
    ELSE IF g.game_mode = MODE_FIRE
    THEN ramp_up(baseline, time_value, g.challenge_start_time,
                 g.fire_max_duration - g.challenge_start_time)
    ELSE IF g.game_mode = MODE_WAVE
    THEN IF time_value < g.wave_transition_time
         THEN ramp_up(baseline, time_value, g.challenge_start_time,
                      g.wave_transition_time - g.challenge_start_time)
         ELSE ramp_down(baseline, time_value, g.wave_transition_time,
                        g.wave_max_duration - g.wave_transition_time)
    ELSE baseline

\* process_data_point, lines 154-162: start time, elapsed time, current value
pdp_enter(g, time_value, signal_value) ==
    LET st == IF g.start_time = None THEN time_value ELSE Val(g.start_time) IN
    [g EXCEPT !.start_time = Some(st),
              !.current_time = time_value - st,
              !.current_value = Some(signal_value)]

\* collection that leaves out a sample at exactly calibration_end_time
cal_collect_open_end(g, signal_value) ==
    IF calibration_start_time <= g.current_time
       /\ g.current_time < calibration_end_time
    THEN [g EXCEPT !.calibration_values = Append(@, signal_value)]
    ELSE g

\* process_data_point, lines 171-172: collect a calibration sample
cal_collect(g, signal_value) ==
    IF calibration_start_time <= g.current_time
       /\ g.current_time <= calibration_end_time
    THEN [g EXCEPT !.calibration_values = Append(@, signal_value)]
    ELSE g

\* process_data_point, line 178: the end of calibration is reached
cal_ended(g) == g.current_time >= calibration_end_time

\* process_data_point, line 182: transition to the challenge state
cal_to_challenge(g) == [g EXCEPT !.state = STATE_CHALLENGE]

\* the calibrating branch that ends calibration only at elapsed == 10 s
pdp_calibrating_exact_end(g, signal_value) ==
    LET c == cal_collect(g, signal_value)
    IN IF c.current_time = calibration_end_time
       THEN cal_to_challenge(_complete_calibration(c))
       ELSE c

\* process_data_point, lines 169-192: the calibrating branch
pdp_calibrating(g, signal_value) ==
    LET c == cal_collect(g, signal_value)
    IN IF cal_ended(c)
       THEN cal_to_challenge(_complete_calibration(c))
       ELSE c

\* process_data_point, line 199: is_above_target
is_above_target(g, signal_value) ==
    RatGeqInt(signal_value, _calculate_target(g, g.current_time))

\* process_data_point, lines 202-211: score the sample
chal_score(g, above) ==
    IF above
    THEN [g EXCEPT !.time_in_target = @ + time_delta,
                   !.current_consecutive_target = @ + time_delta,
                   !.score = @ + 1]
    ELSE [g EXCEPT !.time_below_target = @ + time_delta,
                   !.max_consecutive_target =
                       Max(@, g.current_consecutive_target),
                   !.current_consecutive_target = 0]

\* process_data_point, line 214: the game is complete
chal_ended(g) == g.current_time >= g.max_duration

\* process_data_point, lines 215-219: transition to the complete state
chal_to_complete(g) ==
    [g EXCEPT !.state = STATE_COMPLETE,
              !.max_consecutive_target = Max(@, g.current_consecutive_target)]

\* the challenge branch without the final update of max_consecutive_target
pdp_challenge_no_final_update(g, signal_value) ==
    LET s == chal_score(g, is_above_target(g, signal_value))
    IN IF chal_ended(s) THEN [s EXCEPT !.state = STATE_COMPLETE] ELSE s

\* the challenge branch that drops a streak when it ends
pdp_challenge_drops_streak(g, signal_value) ==
    LET s == IF is_above_target(g, signal_value)
             THEN chal_score(g, TRUE)
             ELSE [g EXCEPT !.time_below_target = @ + time_delta,
                            !.current_consecutive_target = 0]
    IN IF chal_ended(s) THEN chal_to_complete(s) ELSE s

\* the challenge branch that adds to the score for every sample
pdp_challenge_scores_all(g, signal_value) ==
    LET s == [chal_score(g, is_above_target(g, signal_value))
                 EXCEPT !.score = g.score + 1]
    IN IF chal_ended(s) THEN chal_to_complete(s) ELSE s

\* process_data_point, lines 194-231: the challenge branch; an exception of
\* the target calculation at line 196 leaves the call before any scoring
pdp_challenge(g, signal_value) ==
    IF _calculate_target(g, g.current_time) = ZeroDivisionError THEN g
    ELSE LET s == chal_score(g, is_above_target(g, signal_value))
         IN IF chal_ended(s) THEN chal_to_complete(s) ELSE s

\* a dispatch that treats the idle state as calibrating
pdp_dispatch_idle_calibrates(g, branch, signal_value) ==
    CASE branch = STATE_CALIBRATING -> pdp_calibrating(g, signal_value)
      [] branch = STATE_IDLE -> pdp_calibrating(g, signal_value)
      [] branch = STATE_CHALLENGE -> pdp_challenge(g, signal_value)
      [] OTHER -> g

\* a dispatch that goes on scoring in the complete state
pdp_dispatch_scores_when_complete(g, branch, signal_value) ==
    CASE branch = STATE_CALIBRATING -> pdp_calibrating(g, signal_value)
      [] branch = STATE_CHALLENGE -> pdp_challenge(g, signal_value)
      [] branch = STATE_COMPLETE ->
             chal_score(g, is_above_target(g, signal_value))
      [] OTHER -> g

\* process_data_point, lines 164-235: dispatch on the state read at line 165
pdp_dispatch(g, branch, signal_value) ==
    CASE branch = STATE_CALIBRATING -> pdp_calibrating(g, signal_value)
      [] branch = STATE_CHALLENGE -> pdp_challenge(g, signal_value)
      [] OTHER -> g

process_data_point(g, time_value, signal_value) ==
    LET e == pdp_enter(g, time_value, signal_value)
    IN pdp_dispatch(e, e.state, signal_value)

\* get_game_state, line 310: the target is calculated when the baseline is
\* set, and the call fails when that calculation divides by zero
get_game_state_raises(g) ==
    /\ g.baseline_value # None
    /\ _calculate_target(g, g.current_time) = ZeroDivisionError

\* get_game_state, lines 298-321: the snapshot handed to the callbacks and the
\* plot; called when it does not raise
get_game_state(g) ==
    [ state |-> g.state,
      time |-> g.current_time,
      baseline |-> g.baseline_value,
      current_value |-> g.current_value,
      target |-> IF g.baseline_value # None
                 THEN Some(_calculate_target(g, g.current_time)) ELSE None,
      score |-> g.score,
      time_in_target |-> g.time_in_target,
      time_below_target |-> g.time_below_target,
      max_consecutive_target |-> g.max_consecutive_target,
      challenge_start_time |-> g.challenge_start_time,
      max_duration |-> g.max_duration,
      game_mode |-> g.game_mode ]

\* start_game, lines 112-114: state_callback(self.state, ...)
start_game_notifies(g) == <<start_game(g).state>>

\* reset_game, lines 137-139: state_callback(self.state, {})
reset_game_notifies(g) == <<reset_game(g).state>>

\* a process_data_point that notifies after every sample
process_data_point_notifies_always(g, time_value, signal_value) ==
    <<process_data_point(g, time_value, signal_value).state>>

\* process_data_point, lines 178-190 and 214-229: state_callback is called
\* inside the two tests that set a new state
process_data_point_notifies(g, time_value, signal_value) ==
    LET e == pdp_enter(g, time_value, signal_value) IN
    CASE e.state = STATE_CALIBRATING ->
             LET c == cal_collect(e, signal_value)
                 n == cal_to_challenge(_complete_calibration(c))
             IN IF cal_ended(c) /\ ~get_game_state_raises(n)
                THEN <<n.state>>
                ELSE <<>>
      [] e.state = STATE_CHALLENGE ->
             IF _calculate_target(e, e.current_time) = ZeroDivisionError
             THEN <<>>
             ELSE LET sc == chal_score(e, is_above_target(e, signal_value))
                  IN IF chal_ended(sc)
                     THEN <<chal_to_complete(sc).state>> ELSE <<>>
      [] OTHER -> <<>>

\* get_final_results; percent_in_target is the rational num / den
get_final_results(g) ==
    IF g.state # STATE_COMPLETE THEN None
    ELSE LET total_challenge_time == g.max_duration - challenge_start_time IN
         Some([ score |-> g.score,
                time_in_target |-> g.time_in_target,
                time_below_target |-> g.time_below_target,
                percent_in_target |->
                    IF total_challenge_time > 0
                    THEN Reduced(Rat(g.time_in_target * 100,
                                     total_challenge_time))
                    ELSE Rat(0, 1),
                max_consecutive_target |-> g.max_consecutive_target,
                baseline |-> g.baseline_value ])

-----------------------------------------------------------------------------
(* History of one attempt, recorded from the samples themselves:           *)
(* run = length of the run of above-target samples in progress,            *)
(* longest = length of the longest run (the one in progress included),     *)
(* ended = length of the longest run that a below-target sample ended,     *)
(* above = number of above-target samples, scored = number of samples      *)
(* scored, first and last = timestamps of the first and of the latest      *)
(* sample since the attempt began, win_sum and win_n = sum and number of   *)
(* the samples received while calibrating whose timestamp lies 3 s to 10 s *)
(* after the first one                                                     *)

NoObs ==
    [run |-> 0, longest |-> 0, ended |-> 0, above |-> 0, scored |-> 0,
     first |-> None, last |-> None, win_sum |-> 0, win_n |-> 0]

ObserveSample(o, g, time_value, signal_value) ==
    LET first == IF o.first = None THEN time_value ELSE Val(o.first)
        in_window == /\ g.state = STATE_CALIBRATING
                     /\ time_value - first >= 300
                     /\ time_value - first <= 1000
    IN [o EXCEPT !.first = Some(first),
                 !.last = Some(time_value),
                 !.win_sum = IF in_window THEN @ + signal_value ELSE @,
                 !.win_n = IF in_window THEN @ + 1 ELSE @]

Observe(o, g, time_value, signal_value) ==
    LET e == pdp_enter(g, time_value, signal_value)
        w == ObserveSample(o, g, time_value, signal_value)
    IN
    IF e.state # STATE_CHALLENGE THEN w
    ELSE IF _calculate_target(e, e.current_time) = ZeroDivisionError THEN w
    ELSE IF RatGeqInt(signal_value, _calculate_target(e, e.current_time))
    THEN [w EXCEPT !.run = @ + 1, !.longest = Max(@, o.run + 1),
                   !.above = @ + 1, !.scored = @ + 1]
    ELSE [w EXCEPT !.run = 0, !.ended = Max(@, o.run), !.scored = @ + 1]

Call(op, g) == [op |-> op, from |-> g.state]

WithinBounds(g) ==
    /\ Len(g.calibration_values) <= MaxCal
    /\ g.time_in_target + g.time_below_target <= MaxScored * time_delta

-----------------------------------------------------------------------------
(* ArduinoManager, its reader threads and UIManager.  main.py builds       *)
(* ArduinoManager without use_fake_data, so a reader runs the serial loop. *)

MaxThreads == 2    \* reader threads alive at the same time
MaxBuffered == 3   \* samples held in the buffers at the same time

ThreadIds == 1..MaxThreads

\* ArduinoManager.__init__: deque(maxlen=5000)
maxlen == 5000

\* a deque that never drops an element
deque_append_unbounded(d, x) == Append(d, x)

\* deque.append on a bounded deque
deque_append(d, x) ==
    IF Len(d) >= maxlen THEN Append(Tail(d), x) ELSE Append(d, x)

\* ArduinoManager.__init__ followed by main's connect(start_reading=False),
\* which opens the serial port or fails
ArduinoManager(opened) ==
    [ ser_open |-> opened,
      connected |-> opened,
      running |-> FALSE,
      read_thread |-> None,
      data_buffer |-> <<>>,
      timestamps |-> <<>>,
      fake_data_game_mode |-> None ]

\* connect on the serial port: an open port is closed and reopened
connect(a, opened) ==
    IF opened
    THEN [a EXCEPT !.running = IF a.ser_open THEN FALSE ELSE @,
                   !.ser_open = TRUE,
                   !.connected = TRUE]
    ELSE [a EXCEPT !.connected = FALSE, !.ser_open = FALSE, !.running = FALSE]

clear_data(a) == [a EXCEPT !.data_buffer = <<>>, !.timestamps = <<>>]

\* a thread object that is not running: pc is the position in _read_loop and
\* in the data callback, t and v the locals current_time and value, above
\* the local is_above_target, raw the bytes readline returned and line the
\* local line
NotAlive ==
    [pc |-> "none", t |-> 0, v |-> 0, above |-> FALSE, raw |-> <<>>,
     line |-> <<>>]

is_alive(th, w) == th[w].pc # "none"

FreeIds(th) == {w \in ThreadIds : ~is_alive(th, w)}

\* start_reading on the serial port; fits is false when the model has no
\* thread left to start
start_reading(a, th) ==
    IF ~a.connected \/ ~a.ser_open
    THEN [am |-> [a EXCEPT !.connected = FALSE, !.running = FALSE],
          threads |-> th, ok |-> FALSE, fits |-> TRUE]
    ELSE IF FreeIds(th) = {}
    THEN [am |-> a, threads |-> th, ok |-> TRUE, fits |-> FALSE]
    ELSE LET w == CHOOSE x \in FreeIds(th) : TRUE
             c == IF a.running THEN a ELSE clear_data(a)
         IN [am |-> [c EXCEPT !.running = TRUE, !.read_thread = Some(w)],
             threads |-> [th EXCEPT ![w] = [NotAlive EXCEPT !.pc = "loop"]],
             ok |-> TRUE, fits |-> TRUE]

\* stop_reading called by thread self (None: the main thread) up to its
\* join: "join" when it waits for another thread, "raise" when the thread
\* joins itself (RuntimeError), "return" when there is nothing to wait for
stop_reading(a, th, self) ==
    IF ~a.running THEN [am |-> a, outcome |-> "return"]
    ELSE [am |-> [a EXCEPT !.running = FALSE],
          outcome |-> IF a.read_thread = None THEN "return"
                      ELSE IF ~is_alive(th, Val(a.read_thread)) THEN "return"
                      ELSE IF a.read_thread = self THEN "raise"
                      ELSE "join"]

\* UIManager.__init__, after show_intro_screen
UIManager ==
    [pc |-> "mainloop", current_screen |-> "intro", action_button |-> "Start"]

\* update_pass_fail_indicator, lines 771-792: the symbol the label is given,
\* None when the snapshot lacks a value or a target
update_pass_fail_indicator(data) ==
    IF data.current_value = None \/ data.target = None THEN None
    ELSE IF data.game_mode = MODE_FIRE
    THEN Some(IF RatGeqInt(Val(data.current_value), Val(data.target))
              THEN "passed" ELSE "failed")
    ELSE Some(IF RatLeqInt(Val(data.current_value), Val(data.target))
              THEN "passed" ELSE "failed")

\* on_game_state_change called by thread self with the state it was given
on_game_state_change(state, a, th, button, self) ==
    IF state = STATE_CALIBRATING \/ state = STATE_CHALLENGE
    THEN IF ~a.running /\ a.connected
         THEN LET r == start_reading(a, th)
              IN [am |-> r.am, threads |-> r.threads, button |-> "Stop",
                  outcome |-> "return", fits |-> r.fits]
         ELSE [am |-> a, threads |-> th, button |-> "Stop",
               outcome |-> "return", fits |-> TRUE]
    ELSE IF state = STATE_COMPLETE
    THEN LET r == stop_reading(a, th, self)
         IN [am |-> r.am, threads |-> th, button |-> "Clear",
             outcome |-> r.outcome, fits |-> TRUE]
    ELSE [am |-> a, threads |-> th, button |-> button,
          outcome |-> "return", fits |-> TRUE]

-----------------------------------------------------------------------------
(* PPGProcessor (mandala/ppg_processor.py) *)

\* PPGProcessor.__init__: deque(maxlen=30)
hr_maxlen == 30

\* PPGProcessor.__init__ (sampling_rate=100)
default_sampling_rate == 100

\* deque.append on a deque of the given maxlen
append_maxlen(d, x, size) ==
    IF Len(d) >= size THEN Append(Tail(d), x) ELSE Append(d, x)

PPGProcessor(sampling_rate) ==
    [ sampling_rate |-> sampling_rate,
      buffer_size |-> 10 * sampling_rate,
      data_buffer |-> <<>>,
      hr_buffer |-> <<>>,
      baseline_hr |-> Rat(70, 1),
      max_hr |-> Rat(0, 1) ]

\* read_ppg_data and generate_synthetic_data: data_buffer.append(ppg_value)
read_ppg_data(p, ppg_value) ==
    [p EXCEPT !.data_buffer = append_maxlen(@, ppg_value, p.buffer_size)]

\* list(self.data_buffer)[-self.sampling_rate * 3:]
last_3s(p) ==
    LET n == Len(p.data_buffer)
    IN SubSeq(p.data_buffer, Max(1, n - p.sampling_rate * 3 + 1), n)

\* x > np.mean(xs) + 0.3 * np.std(xs), in exact arithmetic: with n the
\* length, S the sum and Q the sum of squares, n*x - S > 0 and
\* 100 * (n*x - S)^2 > 9 * (n*Q - S^2)
above_threshold(x, xs) ==
    LET n == Len(xs)
        S == sum(xs)
        Q == sum([i \in 1..n |-> xs[i] * xs[i]])
        D == n * x - S
    IN D > 0 /\ 100 * D * D > 9 * (n * Q - S * S)

\* the loop of lines 96-98: local maxima above the threshold
peaks(xs) ==
    Cardinality({i \in 2..(Len(xs) - 1) :
        /\ above_threshold(xs[i], xs)
        /\ xs[i] > xs[i - 1]
        /\ xs[i] > xs[i + 1]})

\* a fallback for fewer than two seconds of samples
too_short_two_seconds(p) == Len(p.data_buffer) < p.sampling_rate * 2

\* line 87: len(self.data_buffer) < self.sampling_rate * 3
too_short(p) == Len(p.data_buffer) < p.sampling_rate * 3

\* line 104: np.mean(self.hr_buffer), with the object it is taken from
smoothed(p) ==
    [self |-> p, ret |-> Reduced(Rat(sum(p.hr_buffer), Len(p.hr_buffer)))]

\* calculate_heart_rate: the object after the call and the value returned
calculate_heart_rate(p) ==
    IF too_short(p)
    THEN [self |-> p, ret |-> Rat(70, 1)]
    ELSE smoothed([p EXCEPT !.hr_buffer =
                      append_maxlen(@, peaks(last_3s(p)) * 20, hr_maxlen)])

\* min(100, max(0, x)) of a rational x
normalized(x) ==
    IF x.num <= 0 THEN Rat(0, 1)
    ELSE IF RatLeq(Rat(100, 1), x) THEN Rat(100, 1)
    ELSE Reduced(x)

\* reset_metrics
reset_metrics(p) ==
    LET r == calculate_heart_rate([p EXCEPT !.max_hr = Rat(0, 1)])
    IN [r.self EXCEPT !.baseline_hr = r.ret]

\* get_hr_change_rate(window_size=10): the slope of the least-squares line
\* through the last 10 estimates, at x = 0..9
get_hr_change_rate(p) ==
    IF Len(p.hr_buffer) < 10 THEN Rat(0, 1)
    ELSE LET n == Len(p.hr_buffer)
             y == SubSeq(p.hr_buffer, n - 9, n)
             Sx == sum([i \in 1..10 |-> i - 1])
             Sxx == sum([i \in 1..10 |-> (i - 1) * (i - 1)])
             Sy == sum(y)
             Sxy == sum([i \in 1..10 |-> (i - 1) * y[i]])
         IN Reduced(Rat(10 * Sxy - Sx * Sy, 10 * Sxx - Sx * Sx))

\* lines 131-138: max_hr with the current estimate, and normalized_score of
\* (max_hr - baseline_hr) * 5
fire_score(p, current_hr) ==
    LET max_hr == IF RatLeq(current_hr, p.max_hr) THEN p.max_hr
                  ELSE current_hr
        ignition_score == Reduced(RatSub(max_hr, p.baseline_hr))
    IN [self |-> [p EXCEPT !.max_hr = max_hr],
        score |-> normalized(Rat(ignition_score.num * 5,
                                 ignition_score.den))]

\* evaluate_fire_challenge with r the outcome of its call of
\* calculate_heart_rate
fire_evaluated(r) == fire_score(r.self, r.ret)

\* evaluate_fire_challenge: the object after the call and normalized_score
evaluate_fire_challenge(p) == fire_evaluated(calculate_heart_rate(p))

\* lines 151-157: normalized_score of -slope * 10 + 50
wave_score(p, slope) ==
    [self |-> p,
     score |-> normalized(Rat(50 * slope.den - 10 * slope.num, slope.den))]

\* evaluate_wave_challenge once calculate_heart_rate has been called
wave_evaluated(p) == wave_score(p, get_hr_change_rate(p))

\* evaluate_wave_challenge
evaluate_wave_challenge(p) == wave_evaluated(calculate_heart_rate(p).self)

\* lines 171-181: normalized_score of 10 * np.std of the last 5 estimates
\* when there are more than 5; a value that is no rational is kept as the
\* root of its square
lightning_evaluated(p) ==
    LET n == Len(p.hr_buffer)
        xs == SubSeq(p.hr_buffer, n - 4, n)
        S == sum(xs)
        Q == sum([i \in 1..5 |-> xs[i] * xs[i]])
        square == Reduced(Rat(100 * (5 * Q - S * S), 25))
    IN [self |-> p,
        score |-> IF n <= 5 \/ square.num = 0 THEN Rat(0, 1)
                  ELSE IF RatLeq(Rat(10000, 1), square) THEN Rat(100, 1)
                  ELSE [sqrt |-> square]]

\* evaluate_lightning_challenge
evaluate_lightning_challenge(p) ==
    lightning_evaluated(calculate_heart_rate(p).self)

-----------------------------------------------------------------------------
(* ChallengeManager (mandala/challenge_manager.py); of challenge_state the *)
(* keys team, level and decoded_text, which nothing reads, are left out.   *)
(* now is a reading of time.time() in hundredths of a second.              *)

\* ChallengeManager.__init__: the challenge_state dictionary
ChallengeManager ==
    [ active |-> FALSE,
      type |-> None,
      phase |-> "setup",
      timer |-> 0,
      score |-> 0,
      start_time |-> 0 ]

setup_challenge(challenge_type) ==
    [ active |-> TRUE,
      type |-> challenge_type,
      phase |-> "setup",
      timer |-> 0,
      score |-> 0,
      start_time |-> 0 ]

\* start_challenge: the challenge state and the processor after the call
start_challenge(c, p, now) ==
    [self |-> [c EXCEPT !.phase = "countdown",
                        !.timer = 10,
                        !.start_time = now],
     ppg |-> reset_metrics(p)]

\* max(0, seconds - int(elapsed)); int() rounds towards zero
timer_left(seconds, elapsed) ==
    Max(0, seconds - (IF elapsed >= 0 THEN elapsed \div 100
                      ELSE -((-elapsed) \div 100)))

\* update, lines 66-73: the countdown phase
update_countdown(c, now) ==
    LET t == [c EXCEPT !.timer = timer_left(10, now - c.start_time)]
    IN IF t.timer <= 0
       THEN [t EXCEPT !.phase = "active", !.timer = 60, !.start_time = now]
       ELSE t

\* update, lines 82-91: the evaluation by challenge type
evaluate_challenge(c, p) ==
    CASE c.type = "fire" -> evaluate_fire_challenge(p)
      [] c.type = "wave" -> evaluate_wave_challenge(p)
      [] c.type = "lightning" -> evaluate_lightning_challenge(p)
      [] OTHER -> [self |-> p, score |-> c.score]

\* update, lines 93-98: the score is stored and the end of the timer tested
update_ended(c, e) ==
    IF c.timer <= 0
    THEN [self |-> [c EXCEPT !.score = e.score, !.phase = "complete"],
          ppg |-> e.self, ret |-> Some("completed")]
    ELSE [self |-> [c EXCEPT !.score = e.score], ppg |-> e.self,
          ret |-> None]

\* update, lines 78-98, with the timer set and the sample read
update_scored(c, p) == update_ended(c, evaluate_challenge(c, p))

\* update, lines 75-98: the active phase
update_active(c, p, now, ppg_value) ==
    update_scored([c EXCEPT !.timer = timer_left(60, now - c.start_time)],
                  read_ppg_data(p, ppg_value))

\* an update that goes on reporting the end in the complete phase
update_reports_complete_phase(c, p, now, ppg_value) ==
    IF ~c.active THEN [self |-> c, ppg |-> p, ret |-> None]
    ELSE IF c.phase = "countdown"
    THEN [self |-> update_countdown(c, now), ppg |-> p, ret |-> None]
    ELSE IF c.phase = "active" THEN update_active(c, p, now, ppg_value)
    ELSE [self |-> c, ppg |-> p,
          ret |-> IF c.phase = "complete" THEN Some("completed") ELSE None]

\* update: the challenge state and the processor after the call and the
\* value returned
update(c, p, now, ppg_value) ==
    IF ~c.active THEN [self |-> c, ppg |-> p, ret |-> None]
    ELSE IF c.phase = "countdown"
    THEN [self |-> update_countdown(c, now), ppg |-> p, ret |-> None]
    ELSE IF c.phase = "active" THEN update_active(c, p, now, ppg_value)
    ELSE [self |-> c, ppg |-> p, ret |-> None]

MandalaInit ==
    /\ ppg = PPGProcessor(default_sampling_rate)
    /\ ret = None
    /\ cm = ChallengeManager

-----------------------------------------------------------------------------
(* GameManager driven by any caller: every operation, any sample *)

Init ==
    /\ gm = GameManager
    /\ obs = NoObs
    /\ last_call = Call("__init__", GameManager)
    /\ last_ts = None
    /\ am = ArduinoManager(TRUE)
    /\ threads = [w \in ThreadIds |-> NotAlive]
    /\ ui = UIManager
    /\ MandalaInit
    /\ notified = <<>>

SetGameMode ==
    /\ gm.state = STATE_IDLE
    /\ \E mode \in {MODE_FIRE, MODE_WAVE} : gm' = set_game_mode(gm, mode)
    /\ notified' = <<>>
    /\ last_call' = Call("set_game_mode", gm)
    /\ UNCHANGED <<obs, last_ts, sys, mandala>>

StartGame ==
    /\ gm' = start_game(gm)
    /\ notified' = start_game_notifies(gm)
    /\ obs' = NoObs
    /\ last_call' = Call("start_game", gm)
    /\ UNCHANGED <<last_ts, sys, mandala>>

ResetGame ==
    /\ gm' = reset_game(gm)
    /\ notified' = reset_game_notifies(gm)
    /\ obs' = NoObs
    /\ last_call' = Call("reset_game", gm)
    /\ UNCHANGED <<last_ts, sys, mandala>>

ProcessDataPoint ==
    \E time_value \in Times, signal_value \in Values :
        /\ gm' = process_data_point(gm, time_value, signal_value)
        /\ notified' = process_data_point_notifies(gm, time_value, signal_value)
        /\ WithinBounds(gm')
        /\ obs' = Observe(obs, gm, time_value, signal_value)
        /\ last_call' = Call("process_data_point", gm)
        /\ UNCHANGED <<last_ts, sys, mandala>>

Next == SetGameMode \/ StartGame \/ ResetGame \/ ProcessDataPoint

Spec == Init /\ [][Next]_vars

-----------------------------------------------------------------------------
(* Properties of GameManager, checked under Spec *)

\* C2 (as claimed): whenever the state is complete, time_in_target +
\* time_below_target is within one tick of max_duration - challenge_start_time,
\* whatever the spacing of the samples.
C2_TimesCoverChallengeWindow ==
    gm.state = STATE_COMPLETE =>
        Abs(gm.time_in_target + gm.time_below_target
            - (gm.max_duration - challenge_start_time)) <= time_delta

\* C3 (as claimed): in every state of the challenge phase,
\* max_consecutive_target is at least the length of every run of above-target
\* samples observed so far, the run in progress included.
C3_MaxCoversRunInProgress ==
    gm.state = STATE_CHALLENGE =>
        gm.max_consecutive_target >= time_delta * obs.longest

\* C3 (amended): in every state of the challenge phase, max_consecutive_target
\* is at least the length of every run that a below-target sample has ended,
\* and the larger of max_consecutive_target and current_consecutive_target is
\* at least the length of every run observed so far, the one in progress
\* included; once complete, max_consecutive_target alone covers every run.
C3_MaxCoversEndedRuns ==
    /\ gm.state = STATE_CHALLENGE =>
        /\ gm.max_consecutive_target >= time_delta * obs.ended
        /\ Max(gm.max_consecutive_target, gm.current_consecutive_target)
               >= time_delta * obs.longest
    /\ gm.state = STATE_COMPLETE =>
        gm.max_consecutive_target >= time_delta * obs.longest

\* a run has ended and a longer one is in progress, not yet folded in
C3_Witness ==
    /\ gm.state = STATE_CHALLENGE
    /\ obs.ended >= 1
    /\ obs.run > obs.ended
    /\ gm.max_consecutive_target < time_delta * obs.run

\* C4: at completion max_consecutive_target is 0.1 s times the length of the
\* longest run of consecutive above-target samples scored in the challenge.
C4_MaxIsLongestRun ==
    gm.state = STATE_COMPLETE =>
        gm.max_consecutive_target = time_delta * obs.longest

\* completed with the longest run still in progress on the final sample,
\* after a shorter run that a below-target sample ended
C4_Witness ==
    /\ gm.state = STATE_COMPLETE
    /\ obs.ended >= 1
    /\ obs.run > obs.ended
    /\ obs.run = obs.longest

\* C5: reset_game called in any state leaves state idle, the score, the two
\* times and both streak counters zero, the baseline unset, the calibration
\* samples empty and the start time unset.
C5_ResetClearsEverything ==
    last_call.op = "reset_game" =>
        /\ gm.state = STATE_IDLE
        /\ gm.score = 0
        /\ gm.time_in_target = 0
        /\ gm.time_below_target = 0
        /\ gm.max_consecutive_target = 0
        /\ gm.current_consecutive_target = 0
        /\ gm.baseline_value = None
        /\ gm.calibration_values = <<>>
        /\ gm.start_time = None

\* reset_game has acted on a game that was in its challenge phase
C5_Witness ==
    /\ last_call.op = "reset_game"
    /\ last_call.from = STATE_CHALLENGE

\* C6 (as claimed): within one attempt the elapsed time current_time is never
\* negative and never decreases from one process_data_point call to the next.
C6_ElapsedMonotonic ==
    [][ ( /\ gm.state \in {STATE_CALIBRATING, STATE_CHALLENGE}
          /\ gm.start_time # None
          /\ gm'.start_time = gm.start_time
          /\ last_call'.op = "process_data_point" )
        => ( gm'.current_time >= 0 /\ gm'.current_time >= gm.current_time )
      ]_vars

\* C7 (as claimed): a sample scored in the ramp-down phase of wave mode counts
\* as in-target iff signal_value <= target; in the ramp-up phase and in fire
\* mode iff signal_value >= target.
C7_DirectionalPassRule ==
    [][ ( /\ gm.state = STATE_CHALLENGE
          /\ gm.baseline_value # None
          /\ last_call'.op = "process_data_point" )
        => LET signal_value == Val(gm'.current_value)
               target == _calculate_target(gm, gm'.current_time)
               counted == /\ gm'.time_in_target = gm.time_in_target + time_delta
                          /\ gm'.score = gm.score + 1
               ramp_down_phase == /\ gm.game_mode = MODE_WAVE
                                  /\ gm'.current_time >= wave_transition_time
           IN counted <=> IF ramp_down_phase
                          THEN RatLeqInt(signal_value, target)
                          ELSE RatGeqInt(signal_value, target)
      ]_vars

\* C10: if every sample scored during the challenge was below the target, then
\* at completion score, time_in_target, max_consecutive_target and
\* percent_in_target are all zero.
C10_AllBelowScoresNothing ==
    (gm.state = STATE_COMPLETE /\ obs.above = 0) =>
        /\ gm.score = 0
        /\ gm.time_in_target = 0
        /\ gm.max_consecutive_target = 0
        /\ Val(get_final_results(gm)).score = 0
        /\ RatEq(Val(get_final_results(gm)).percent_in_target, Rat(0, 1))

\* completed after several scored samples, every one of them below the target
C10_Witness ==
    /\ gm.state = STATE_COMPLETE
    /\ obs.scored >= 2
    /\ obs.above = 0
    /\ gm.time_below_target = time_delta * obs.scored

\* C11: once calibration has ended, baseline_value is the mean of the samples
\* received while calibrating whose elapsed time lay in [3 s, 10 s], and is
\* 500 when there was none; the transition always yields a baseline
C11_BaselineIsWindowMean ==
    gm.state \in {STATE_CHALLENGE, STATE_COMPLETE} =>
        /\ gm.baseline_value # None
        /\ RatEq(Val(gm.baseline_value),
                 IF obs.win_n = 0 THEN Rat(500, 1)
                 ELSE Rat(obs.win_sum, obs.win_n))

C11_Witness ==
    /\ gm.state = STATE_CHALLENGE
    /\ obs.win_n = 2
    /\ obs.win_sum = 1050
    /\ RatEq(Val(gm.baseline_value), Rat(525, 1))

\* C12: after start_game, the elapsed time of every sample processed is its
\* timestamp minus the timestamp of the first sample since the start (so 0
\* for the first one)
C12_ElapsedFromFirstSample ==
    (gm.state # STATE_IDLE /\ obs.first # None) =>
        gm.current_time = Val(obs.last) - Val(obs.first)

C12_Witness ==
    /\ gm.state # STATE_IDLE
    /\ last_call.op = "process_data_point"
    /\ obs.first = Some(500)
    /\ obs.last = Some(1000)
    /\ gm.current_time = 500

\* C13: a process_data_point call made in state idle or complete leaves the
\* state as it is
C13_IdleAndCompleteAbsorb ==
    [][(gm.state \in {STATE_IDLE, STATE_COMPLETE}
        /\ last_call'.op = "process_data_point") => gm'.state = gm.state]_vars

C13_Witness ==
    /\ last_call = [op |-> "process_data_point", from |-> STATE_IDLE]
    /\ gm.state = STATE_IDLE
    /\ gm.current_time >= calibration_end_time

C22_CallbackOncePerChange ==
    [][/\ gm'.state # gm.state => notified' = <<gm'.state>>
       /\ (last_call'.op = "process_data_point" /\ gm'.state = gm.state)
          => notified' = <<>>]_vars

C22_Witness ==
    /\ last_call = [op |-> "process_data_point", from |-> STATE_CHALLENGE]
    /\ gm.state = STATE_COMPLETE
    /\ notified = <<STATE_COMPLETE>>

\* the performance metrics are all zero
NothingScored(g) ==
    /\ g.score = 0
    /\ g.time_in_target = 0
    /\ g.time_below_target = 0
    /\ g.max_consecutive_target = 0
    /\ g.current_consecutive_target = 0

\* C26: in the calibrating state the score, both times and both streak
\* counters are zero, and they still are right after the sample that moves
\* the game from calibrating to challenge
C26_NoScoringWhileCalibrating ==
    /\ [](gm.state = STATE_CALIBRATING => NothingScored(gm))
    /\ [][(gm.state = STATE_CALIBRATING /\ gm'.state = STATE_CHALLENGE)
          => NothingScored(gm')]_vars

C26_Witness ==
    /\ last_call = [op |-> "process_data_point", from |-> STATE_CALIBRATING]
    /\ gm.state = STATE_CHALLENGE
    /\ gm.current_time >= 4000
    /\ NothingScored(gm)

\* C27 (as claimed): for every sample processed in the challenge phase, in
\* fire mode and in both phases of wave mode, the indicator that
\* update_pass_fail_indicator computes from the snapshot of the game state
\* taken after the sample shows "passed" exactly when process_data_point
\* counted the sample into time_in_target
C27_IndicatorMatchesScoring ==
    [][(last_call'.op = "process_data_point" /\ gm.state = STATE_CHALLENGE)
       => (update_pass_fail_indicator(get_game_state(gm')) = Some("passed")
           <=> gm'.time_in_target > gm.time_in_target)]_vars

-----------------------------------------------------------------------------
(* One attempt fed by a stream of samples with non-decreasing timestamps   *)
(* that in the end delivers samples with elapsed >= max_duration           *)

\* the stream begins at a time of StreamStarts; LateTimes are late enough for
\* elapsed >= max_duration whatever the start and the mode
StreamStarts == {0, 500}
LateTimes == {t + wave_max_duration : t \in StreamStarts}
StreamTimes == Times \cup LateTimes

NonDecreasing(time_value) ==
    IF last_ts = None THEN TRUE ELSE time_value >= Val(last_ts)

Feed(time_value, signal_value) ==
    /\ NonDecreasing(time_value)
    /\ last_ts' = Some(time_value)
    /\ last_call' = Call("process_data_point", gm)
    /\ gm' = process_data_point(gm, time_value, signal_value)
    /\ notified' = process_data_point_notifies(gm, time_value, signal_value)
    /\ obs' = Observe(obs, gm, time_value, signal_value)
    /\ UNCHANGED <<sys, mandala>>

LiveSetGameMode ==
    /\ gm.state = STATE_IDLE
    /\ \E mode \in {MODE_FIRE, MODE_WAVE} : gm' = set_game_mode(gm, mode)
    /\ notified' = <<>>
    /\ last_call' = Call("set_game_mode", gm)
    /\ UNCHANGED <<obs, last_ts, sys, mandala>>

LiveStartGame ==
    /\ gm.state = STATE_IDLE
    /\ gm' = start_game(gm)
    /\ notified' = start_game_notifies(gm)
    /\ obs' = NoObs
    /\ last_call' = Call("start_game", gm)
    /\ UNCHANGED <<last_ts, sys, mandala>>

\* any next sample of the stream; leaves room for the late samples
LiveFeed ==
    /\ gm.state \in {STATE_CALIBRATING, STATE_CHALLENGE}
    /\ \E time_value \in StreamTimes, signal_value \in Values :
        /\ last_ts = None => time_value \in StreamStarts
        /\ Feed(time_value, signal_value)
        /\ Len(gm'.calibration_values) <= MaxCal
        /\ gm'.time_in_target + gm'.time_below_target < MaxScored * time_delta

\* a next sample with elapsed >= max_duration
LiveFeedLate ==
    /\ gm.state \in {STATE_CALIBRATING, STATE_CHALLENGE}
    /\ gm.start_time # None
    /\ \E time_value \in StreamTimes, signal_value \in Values :
        /\ time_value - Val(gm.start_time) >= gm.max_duration
        /\ Feed(time_value, signal_value)

LiveNext == LiveSetGameMode \/ LiveStartGame \/ LiveFeed \/ LiveFeedLate

LiveSpec ==
    Init /\ [][LiveNext]_vars /\ WF_vars(LiveFeed) /\ WF_vars(LiveFeedLate)

PhaseOrder ==
    { <<STATE_IDLE, STATE_CALIBRATING>>,
      <<STATE_CALIBRATING, STATE_CHALLENGE>>,
      <<STATE_CHALLENGE, STATE_COMPLETE>> }

\* C1: after start_game, a stream with non-decreasing timestamps that reaches
\* elapsed >= calibration_end_time and later elapsed >= max_duration brings the
\* machine to complete, in fire and in wave mode, and the state only ever moves
\* calibrating -> challenge -> complete.
C1_StreamEndsInComplete ==
    /\ (gm.state = STATE_CALIBRATING) ~> (gm.state = STATE_COMPLETE)
    /\ [][gm'.state # gm.state => <<gm.state, gm'.state>> \in PhaseOrder]_vars

\* a wave game completed by the stream after samples scored in the challenge
C1_Witness ==
    /\ gm.state = STATE_COMPLETE
    /\ gm.game_mode = MODE_WAVE
    /\ last_ts # None
    /\ obs.scored >= 2
    /\ gm.current_time >= wave_max_duration

-----------------------------------------------------------------------------
(* The scripted scenario: a fire game fed 100 samples per second, the      *)
(* constant ScenarioBase during the first 10 s and ScenarioBase + 50 for   *)
(* the remaining 30 s                                                      *)

SamplePeriod == 1         \* 100 samples per second
ScenarioBase == 500

ScenarioValue(time_value) ==
    IF time_value <= calibration_end_time THEN ScenarioBase
    ELSE ScenarioBase + ramp_delta

ScenarioStartGame ==
    /\ gm.state = STATE_IDLE
    /\ gm' = start_game(gm)
    /\ notified' = start_game_notifies(gm)
    /\ obs' = NoObs
    /\ last_call' = Call("start_game", gm)
    /\ UNCHANGED <<last_ts, sys, mandala>>

ScenarioFeed ==
    /\ gm.state \in {STATE_CALIBRATING, STATE_CHALLENGE}
    /\ LET time_value == IF last_ts = None THEN 0
                         ELSE Val(last_ts) + SamplePeriod
       IN Feed(time_value, ScenarioValue(time_value))

ScenarioNext == ScenarioStartGame \/ ScenarioFeed

ScenarioSpec == Init /\ [][ScenarioNext]_vars

\* C9 (as claimed): in the scenario, percent_in_target of get_final_results at
\* completion is 100 % to within one tick's worth of the 30 s challenge window.
C9_ScenarioPercentNear100 ==
    gm.state = STATE_COMPLETE =>
        LET total == gm.max_duration - challenge_start_time
            percent == Val(get_final_results(gm)).percent_in_target
        IN /\ RatLeq(Reduced(Rat((total - time_delta) * 100, total)), percent)
           /\ RatLeq(percent, Reduced(Rat((total + time_delta) * 100, total)))

-----------------------------------------------------------------------------
(* The target function on its own: a GameManager in the challenge state,   *)
(* with any baseline and mode, whose elapsed time moves to any value.      *)

TargetStep == 250       \* spacing of the elapsed times probed
MaxTargetTicks == 32    \* number of steps probed

TargetBreaks ==
    {challenge_start_time, fire_max_duration, wave_transition_time,
     wave_max_duration}
TargetTimes ==
    {k * TargetStep : k \in 0..MaxTargetTicks}
    \cup {t + d : t \in TargetBreaks, d \in {-1, 0, 1}}
Baselines == {Rat(0, 1), Rat(500, 1), Rat(1501, 3)}

TargetInit ==
    /\ \E mode \in {MODE_FIRE, MODE_WAVE}, baseline \in Baselines :
           gm = [start_game(set_game_mode(GameManager, mode))
                     EXCEPT !.state = STATE_CHALLENGE,
                            !.baseline_value = Some(baseline)]
    /\ obs = NoObs
    /\ last_call = Call("__init__", GameManager)
    /\ last_ts = None
    /\ am = ArduinoManager(TRUE)
    /\ threads = [w \in ThreadIds |-> NotAlive]
    /\ ui = UIManager
    /\ MandalaInit
    /\ notified = <<>>

\* process_data_point, line 161: the elapsed time becomes any value
TargetProbe ==
    /\ \E time_value \in TargetTimes :
           gm' = [gm EXCEPT !.current_time = time_value]
    /\ UNCHANGED <<obs, last_call, last_ts, sys, mandala, notified>>

TargetNext == TargetProbe

TargetSpec == TargetInit /\ [][TargetNext]_vars

\* get_game_state, line 302: the target at the current elapsed time
target == Reduced(_calculate_target(gm, gm.current_time))

RatPlusInt(r, n) == Reduced(RatAdd(r, Rat(n, 1)))

\* C15: before challenge_start_time the target is the baseline itself, for
\* every baseline and in both modes
C15_TargetIsBaselineBeforeChallenge ==
    gm.current_time < 1000 =>
        _calculate_target(gm, gm.current_time) = Val(gm.baseline_value)

C15_Witness ==
    /\ gm.game_mode = MODE_WAVE
    /\ gm.current_time = 999
    /\ gm.baseline_value = Some(Rat(1501, 3))
    /\ _calculate_target(gm, gm.current_time) = Rat(1501, 3)

\* C16: in fire mode the target lies in [baseline, baseline + 50] at every
\* time, is baseline + 50 at 40 s, and does not decrease as the time grows
\* from 10 s to 40 s
C16_FireRamp ==
    /\ [](gm.game_mode = MODE_FIRE =>
            /\ RatLeq(Val(gm.baseline_value), target)
            /\ RatLeq(target, RatPlusInt(Val(gm.baseline_value), 50))
            /\ gm.current_time = 4000 =>
                   RatEq(target, RatPlusInt(Val(gm.baseline_value), 50)))
    /\ [][(gm.game_mode = MODE_FIRE
           /\ 1000 <= gm.current_time
           /\ gm.current_time <= gm'.current_time
           /\ gm'.current_time <= 4000) => RatLeq(target, target')]_vars

C16_Witness ==
    /\ gm.game_mode = MODE_FIRE
    /\ gm.current_time = 4001
    /\ gm.baseline_value = Some(Rat(1501, 3))
    /\ RatEq(target, Rat(1651, 3))

\* the change of the target over a step is at most 50 per 30 s of time
NoJump ==
    LET d == Reduced(RatSub(target', target))
        bound == Reduced(Rat(Abs(gm'.current_time - gm.current_time) * 50,
                             3000))
    IN RatLeq(d, bound) /\ RatLeq(Rat(-d.num, d.den), bound)

\* C17: in wave mode the target has no jump at 40 s, where it is
\* baseline + 50, does not increase as the time grows from 40 s on, and is
\* the baseline at 70 s
C17_WaveContinuousThenDown ==
    /\ [](gm.game_mode = MODE_WAVE =>
            /\ gm.current_time = 4000 =>
                   RatEq(target, RatPlusInt(Val(gm.baseline_value), 50))
            /\ gm.current_time = 7000 =>
                   RatEq(target, Val(gm.baseline_value)))
    /\ [][(gm.game_mode = MODE_WAVE
           /\ 1000 <= gm.current_time
           /\ 1000 <= gm'.current_time) => NoJump]_vars
    /\ [][(gm.game_mode = MODE_WAVE
           /\ 4000 <= gm.current_time
           /\ gm.current_time <= gm'.current_time)
          => RatLeq(target', target)]_vars

C17_Witness ==
    /\ gm.game_mode = MODE_WAVE
    /\ gm.current_time = 4001
    /\ gm.baseline_value = Some(Rat(1501, 3))
    /\ RatLeq(target, Rat(1651, 3))
    /\ ~RatEq(target, Rat(1651, 3))

-----------------------------------------------------------------------------
(* The application: the Tk main thread and the reader threads interleave   *)
(* between the steps below on the shared GameManager and ArduinoManager.   *)
(* A join(timeout=1.0) returns when the joined thread has ended or when    *)
(* the second is over, so the joining thread goes on at any later moment.  *)

MaxSysCal == 1      \* calibration samples collected per attempt
MaxSysScored == 1   \* samples scored per attempt

\* elapsed times of a reader's clock and raw values on the serial line
SysTimes == {0, 1000, 7000}
SysValues == {500}

SysWithinBounds(g) ==
    /\ Len(g.calibration_values) <= MaxSysCal
    /\ g.time_in_target + g.time_below_target <= MaxSysScored * time_delta

SysInit ==
    /\ gm = GameManager
    /\ obs = NoObs
    /\ last_call = Call("__init__", GameManager)
    /\ last_ts = None
    /\ \E opened \in BOOLEAN : am = ArduinoManager(opened)
    /\ threads = [w \in ThreadIds |-> NotAlive]
    /\ ui = UIManager
    /\ MandalaInit
    /\ notified = <<>>

Goto(w, pc) == threads' = [threads EXCEPT ![w].pc = pc]

\* _read_loop, line 335: the loop test
reading(a) == a.running /\ a.connected /\ a.ser_open

\* a handler that leaves connected as it is
connection_lost_keeps_connected(a) == a

\* _read_loop, lines 367-379: any exception raised in the loop, by the serial
\* port or by the data callback, is taken as a lost connection
connection_lost(a) == [a EXCEPT !.connected = FALSE]

\* _read_loop, lines 335-357, and on_new_data, line 444: a valid line is
\* read and stored, and passed on unless the game is idle
ReadSample(w) ==
    /\ threads[w].pc = "loop"
    /\ reading(am)
    /\ Len(am.data_buffer) < MaxBuffered
    /\ \E current_time \in SysTimes, value \in SysValues :
        /\ current_time >= threads[w].t
        /\ am' = [am EXCEPT !.data_buffer = deque_append(@, value),
                            !.timestamps = deque_append(@, current_time)]
        /\ threads' = [threads EXCEPT
               ![w].pc = IF gm.state # STATE_IDLE THEN "pdp_enter" ELSE "loop",
               ![w].t = current_time,
               ![w].v = value]
    /\ UNCHANGED <<gm, obs, last_call, last_ts, ui, mandala, notified>>

\* _read_loop, lines 335-337, 359-365: nothing waiting, or an invalid line
ReadNoSample(w) ==
    /\ threads[w].pc = "loop"
    /\ reading(am)
    /\ UNCHANGED vars

\* _read_loop, lines 335-339, 367-379: the serial port raises
ReadError(w) ==
    /\ threads[w].pc = "loop"
    /\ reading(am)
    /\ am' = connection_lost(am)
    /\ Goto(w, "exit")
    /\ UNCHANGED <<gm, obs, last_call, last_ts, ui, mandala, notified>>

\* _read_loop, line 335: the loop test fails
ReadLoopEnds(w) ==
    /\ threads[w].pc = "loop"
    /\ ~reading(am)
    /\ Goto(w, "exit")
    /\ UNCHANGED <<gm, obs, last_call, last_ts, am, ui, mandala, notified>>

\* _read_loop, line 382: running = False, and the thread ends
ReadLoopExit(w) ==
    /\ threads[w].pc = "exit"
    /\ am' = [am EXCEPT !.running = FALSE]
    /\ threads' = [threads EXCEPT ![w] = NotAlive]
    /\ UNCHANGED <<gm, obs, last_call, last_ts, ui, mandala, notified>>

\* process_data_point, lines 154-178 and 194-199: entry and choice of branch;
\* calibrating: collect and test the end of calibration; challenge: the
\* target and the comparison, which raises TypeError when no baseline is set
PdpEnter(w) ==
    /\ threads[w].pc = "pdp_enter"
    /\ LET e == pdp_enter(gm, threads[w].t, threads[w].v) IN
       IF e.state = STATE_CALIBRATING
       THEN /\ gm' = cal_collect(e, threads[w].v)
            /\ SysWithinBounds(gm')
            /\ Goto(w, IF cal_ended(gm') THEN "cal_complete" ELSE "loop")
            /\ am' = am
       ELSE IF e.state = STATE_CHALLENGE
       THEN /\ gm' = e
            /\ IF e.baseline_value = None
               THEN am' = connection_lost(am) /\ Goto(w, "exit")
               ELSE /\ threads' = [threads EXCEPT
                           ![w].pc = "chal_score",
                           ![w].above = is_above_target(e, threads[w].v)]
                    /\ am' = am
       ELSE gm' = e /\ Goto(w, "loop") /\ am' = am
    /\ last_call' = Call("process_data_point", gm)
    /\ UNCHANGED <<obs, last_ts, ui, mandala, notified>>

\* process_data_point, lines 179-182: _complete_calibration, state = challenge
CalComplete(w) ==
    /\ threads[w].pc = "cal_complete"
    /\ gm' = cal_to_challenge(_complete_calibration(gm))
    /\ last_call' = Call("process_data_point", gm)
    /\ Goto(w, "state_callback")
    /\ UNCHANGED <<obs, last_ts, am, ui, mandala, notified>>

\* process_data_point, lines 200-219: score the sample, test the end,
\* state = complete
ChalScore(w) ==
    /\ threads[w].pc = "chal_score"
    /\ LET s == chal_score(gm, threads[w].above) IN
       /\ SysWithinBounds(s)
       /\ gm' = IF chal_ended(s) THEN chal_to_complete(s) ELSE s
       /\ threads' = [threads EXCEPT
              ![w].pc = IF chal_ended(s) THEN "state_callback" ELSE "loop",
              ![w].above = FALSE]
    /\ last_call' = Call("process_data_point", gm)
    /\ UNCHANGED <<obs, last_ts, am, ui, mandala, notified>>

\* process_data_point, lines 189-190 and 228-229: state_callback(self.state);
\* a RuntimeError of stop_reading is caught by the loop, lines 367-379
StateCallback(w) ==
    /\ threads[w].pc = "state_callback"
    /\ LET r == on_game_state_change(gm.state, am, threads,
                                     ui.action_button, Some(w))
       IN /\ r.fits
          /\ am' = IF r.outcome = "raise" THEN connection_lost(r.am) ELSE r.am
          /\ ui' = [ui EXCEPT !.action_button = r.button]
          /\ threads' = [r.threads EXCEPT ![w].pc =
                 CASE r.outcome = "join" -> "join"
                   [] r.outcome = "raise" -> "exit"
                   [] OTHER -> "loop"]
    /\ UNCHANGED <<gm, obs, last_call, last_ts, mandala, notified>>

\* stop_reading, lines 215-222, in a reader: the join of another reader ends
ReaderJoined(w) ==
    /\ threads[w].pc = "join"
    /\ Goto(w, "loop")
    /\ UNCHANGED <<gm, obs, last_call, last_ts, am, ui, mandala, notified>>

Reader(w) ==
    \/ ReadSample(w) \/ ReadNoSample(w) \/ ReadError(w)
    \/ ReadLoopEnds(w) \/ ReadLoopExit(w) \/ PdpEnter(w) \/ CalComplete(w)
    \/ ChalScore(w) \/ StateCallback(w) \/ ReaderJoined(w)

AtMainloop(screen) == ui.pc = "mainloop" /\ ui.current_screen = screen

\* the serial port opens or fails when connect is called
Openings(a) == IF a.connected THEN {TRUE} ELSE BOOLEAN

\* handle_action_button, lines 498-506: connect when not connected
auto_connect(a, opened) == IF a.connected THEN a ELSE connect(a, opened)

\* start_game_mode, lines 294-320: set_game_mode, reset_game, clear_data,
\* then stop_reading if running, up to its join
StartGameMode ==
    /\ AtMainloop("intro")
    /\ \E mode \in {MODE_FIRE, MODE_WAVE} :
           gm' = reset_game(set_game_mode(gm, mode))
    /\ last_call' = Call("reset_game", gm)
    /\ LET r == stop_reading(clear_data(am), threads, None)
       IN /\ am' = r.am
          /\ ui' = IF r.outcome = "join"
                   THEN [ui EXCEPT !.pc = "sgm_join"]
                   ELSE [ui EXCEPT !.current_screen = "game",
                                   !.action_button = "Start"]
    /\ UNCHANGED <<obs, last_ts, threads, mandala, notified>>

\* start_game_mode, lines 322-397, once the join of stop_reading is over
SgmJoined ==
    /\ ui.pc = "sgm_join"
    /\ ui' = [ui EXCEPT !.pc = "mainloop",
                        !.current_screen = "game",
                        !.action_button = "Start"]
    /\ UNCHANGED <<gm, obs, last_call, last_ts, am, threads, mandala, notified>>

\* handle_action_button with the button on Start, lines 494-525
ActionStart ==
    /\ AtMainloop("game")
    /\ ui.action_button = "Start"
    /\ \E opened \in Openings(am) :
        LET a == auto_connect(am, opened)
            r == start_reading(clear_data(a), threads)
            g == start_game(gm)
            c == on_game_state_change(g.state, r.am, r.threads,
                                      ui.action_button, None)
        IN IF ~a.connected
           THEN am' = a /\ UNCHANGED <<gm, last_call, threads, ui, mandala, notified>>
           ELSE IF ~r.ok
           THEN am' = r.am /\ UNCHANGED <<gm, last_call, threads, ui, mandala, notified>>
           ELSE /\ r.fits /\ c.fits
                /\ gm' = g
                /\ last_call' = Call("start_game", gm)
                /\ am' = c.am
                /\ threads' = c.threads
                /\ ui' = [ui EXCEPT !.action_button = "Stop"]
    /\ UNCHANGED <<obs, last_ts, mandala, notified>>

\* handle_action_button with the button on Stop, lines 494-506, 526-528:
\* stop_reading up to its join
ActionStop ==
    /\ AtMainloop("game")
    /\ ui.action_button = "Stop"
    /\ \E opened \in Openings(am) :
        LET r == stop_reading(auto_connect(am, opened), threads, None)
        IN /\ am' = r.am
           /\ IF r.outcome = "join"
              THEN /\ ui' = [ui EXCEPT !.pc = "stop_join"]
                   /\ UNCHANGED <<gm, last_call, mandala, notified>>
              ELSE /\ gm' = reset_game(gm)
                   /\ last_call' = Call("reset_game", gm)
                   /\ ui' = [ui EXCEPT !.action_button = "Clear"]
    /\ UNCHANGED <<obs, last_ts, threads, mandala, notified>>

\* handle_action_button, lines 530-534, once the join of stop_reading is over
StopJoined ==
    /\ ui.pc = "stop_join"
    /\ gm' = reset_game(gm)
    /\ last_call' = Call("reset_game", gm)
    /\ ui' = [ui EXCEPT !.pc = "mainloop", !.action_button = "Clear"]
    /\ UNCHANGED <<obs, last_ts, am, threads, mandala, notified>>

\* handle_action_button with the button on Clear, lines 536-552
ActionClear ==
    /\ AtMainloop("game")
    /\ ui.action_button = "Clear"
    /\ am' = clear_data(am)
    /\ ui' = [ui EXCEPT !.action_button = "Start"]
    /\ UNCHANGED <<gm, obs, last_call, last_ts, threads, mandala, notified>>

\* handle_quit_button, lines 827-828: stop_reading if running, up to its join
QuitButton ==
    /\ AtMainloop("game")
    /\ LET r == stop_reading(am, threads, None)
       IN IF r.outcome = "join"
          THEN /\ am' = r.am
               /\ ui' = [ui EXCEPT !.pc = "quit_join"]
               /\ UNCHANGED <<gm, last_call, mandala, notified>>
          ELSE /\ gm' = reset_game(gm)
               /\ last_call' = Call("reset_game", gm)
               /\ am' = clear_data(r.am)
               /\ ui' = [ui EXCEPT !.current_screen = "intro",
                                   !.action_button = "Start"]
    /\ UNCHANGED <<obs, last_ts, threads, mandala, notified>>

\* handle_quit_button, lines 831-864, once the join of stop_reading is over
QuitJoined ==
    /\ ui.pc = "quit_join"
    /\ gm' = reset_game(gm)
    /\ last_call' = Call("reset_game", gm)
    /\ am' = clear_data(am)
    /\ ui' = [ui EXCEPT !.pc = "mainloop",
                        !.current_screen = "intro",
                        !.action_button = "Start"]
    /\ UNCHANGED <<obs, last_ts, threads, mandala, notified>>

MainThread ==
    \/ StartGameMode \/ SgmJoined
    \/ ActionStart \/ ActionStop \/ StopJoined \/ ActionClear
    \/ QuitButton \/ QuitJoined

SysNext == MainThread \/ \E w \in ThreadIds : Reader(w)

SysSpec == SysInit /\ [][SysNext]_vars

\* C8: once a reset path of the user interface has put the game back to
\* idle, no step of a reader's data callback sets baseline_value, changes a
\* metric or moves the state out of idle
C8_ResetSilencesReader ==
    [][(gm.state = STATE_IDLE /\ last_call'.op = "process_data_point")
        => /\ gm'.state = STATE_IDLE
           /\ gm'.baseline_value = gm.baseline_value
           /\ gm'.score = gm.score
           /\ gm'.time_in_target = gm.time_in_target
           /\ gm'.time_below_target = gm.time_below_target
           /\ gm'.max_consecutive_target = gm.max_consecutive_target
           /\ gm'.current_consecutive_target = gm.current_consecutive_target
      ]_vars

\* C29 (as claimed): when a challenge on the serial port reaches complete,
\* the state callback that the reader runs for it, which stops the reading
\* from inside the reader's own data callback, leaves connected true and
\* reports no lost connection
C29_CompletionKeepsConnection ==
    [][\A w \in ThreadIds :
          (/\ threads[w].pc = "state_callback"
           /\ threads'[w].pc # "state_callback"
           /\ gm.state = STATE_COMPLETE
           /\ am.connected)
          => am'.connected]_vars

\* C30 (as claimed): however stop_reading and start_reading interleave with
\* the reader threads, the only reader that can store samples is the one
\* the latest start_reading created, and a reader of an earlier session that
\* ends late does not set running to false for the latest session
C30_OneWorkerPerSession ==
    [][\A w \in ThreadIds :
          /\ (threads'[w].pc = "loop" /\ reading(am'))
             => am'.read_thread = Some(w)
          /\ (/\ threads[w].pc = "exit"
              /\ threads'[w].pc = "none"
              /\ am.read_thread # Some(w))
             => am'.running = am.running]_vars

-----------------------------------------------------------------------------
(* The serial reader on its own: one caller starts and stops reading and   *)
(* waits for the reader thread to end before it starts the next one; the   *)
(* reader takes the lines the port delivers, byte by byte as received.     *)

MaxSession == 3    \* clock ticks (0.01 s) at which a reader stores a sample

\* samples already stored by the running reader when observation begins
Prefilled == {0, maxlen - 2}

\* readings of a reader's clock, in ticks since its start
ReaderTimes == UNION {n..(n + MaxSession) : n \in Prefilled}

Digits == 48..57
Whitespace == {9, 10, 11, 12, 13, 32}

\* what readline returns: "512\r\n", "+7\n", "\n", "a\n", "5.0\n" and a
\* byte 0xFF followed by "1\n"
Lines ==
    {<<53, 49, 50, 13, 10>>, <<43, 55, 10>>, <<10>>, <<97, 10>>,
     <<53, 46, 48, 10>>, <<255, 49, 10>>}

\* bytes.decode('utf-8') on ASCII bytes and on bytes that occur in no UTF-8
\* sequence; None stands for the UnicodeDecodeError
decode(bytes) ==
    IF \E i \in 1..Len(bytes) : bytes[i] >= 128 THEN None ELSE Some(bytes)

RECURSIVE lstrip(_)
lstrip(s) ==
    IF s # <<>> /\ Head(s) \in Whitespace THEN lstrip(Tail(s)) ELSE s

RECURSIVE rstrip(_)
rstrip(s) ==
    IF s # <<>> /\ s[Len(s)] \in Whitespace
    THEN rstrip(SubSeq(s, 1, Len(s) - 1))
    ELSE s

\* str.strip
strip(s) == rstrip(lstrip(s))

RECURSIVE digits_value(_, _)
digits_value(s, acc) ==
    IF s = <<>> THEN acc
    ELSE digits_value(Tail(s), 10 * acc + (Head(s) - 48))

\* int(str) on a stripped string of ASCII characters without underscores;
\* None stands for the ValueError
int(s) ==
    LET signed == s # <<>> /\ Head(s) \in {43, 45}
        body == IF signed THEN Tail(s) ELSE s
    IN IF body # <<>> /\ \A i \in 1..Len(body) : body[i] \in Digits
       THEN Some((IF signed /\ Head(s) = 45 THEN -1 ELSE 1)
                 * digits_value(body, 0))
       ELSE None

\* a reader is running and has stored n samples, one per tick
ReaderInit ==
    /\ gm = GameManager
    /\ obs = NoObs
    /\ last_call = Call("__init__", GameManager)
    /\ last_ts = None
    /\ \E n \in Prefilled :
         LET r == start_reading(ArduinoManager(TRUE),
                                [w \in ThreadIds |-> NotAlive])
         IN /\ am = [r.am EXCEPT
                        !.data_buffer = [i \in 1..n |-> 500 + (i % 2)],
                        !.timestamps = [i \in 1..n |-> i]]
            /\ threads = [r.threads EXCEPT ![Val(r.am.read_thread)].t = n]
    /\ ui = UIManager
    /\ MandalaInit
    /\ notified = <<>>

\* connect by the caller after the connection was lost
CallerConnect ==
    /\ ui.pc = "mainloop"
    /\ ~am.connected
    /\ \A w \in ThreadIds : ~is_alive(threads, w)
    /\ am' = connect(am, TRUE)
    /\ UNCHANGED <<gm, obs, last_call, last_ts, threads, ui, mandala, notified>>

\* start_reading by the caller
CallerStartReading ==
    /\ ui.pc = "mainloop"
    /\ ~am.running
    /\ \A w \in ThreadIds : ~is_alive(threads, w)
    /\ LET r == start_reading(am, threads)
       IN am' = r.am /\ threads' = r.threads
    /\ UNCHANGED <<gm, obs, last_call, last_ts, ui, mandala, notified>>

\* stop_reading by the caller; its join lasts until the reader has ended
CallerStopReading ==
    /\ ui.pc = "mainloop"
    /\ am.running
    /\ am' = stop_reading(am, threads, None).am
    /\ UNCHANGED <<gm, obs, last_call, last_ts, threads, ui, mandala, notified>>

\* _read_loop, lines 335-339: a line is waiting, readline returns it
ReadLine(w) ==
    /\ threads[w].pc = "loop"
    /\ reading(am)
    /\ \E bytes \in Lines :
           threads' = [threads EXCEPT ![w].pc = "decode", ![w].raw = bytes]
    /\ UNCHANGED <<gm, obs, last_call, last_ts, am, ui, mandala, notified>>

\* _read_loop, line 339: decode('utf-8').strip(); a UnicodeDecodeError is
\* raised outside the inner try and caught at line 367
DecodeLine(w) ==
    /\ threads[w].pc = "decode"
    /\ LET d == decode(threads[w].raw) IN
       IF d = None
       THEN /\ am' = connection_lost(am)
            /\ last_call' = Call("on_connection_change", gm)
            /\ Goto(w, "exit")
       ELSE /\ threads' = [threads EXCEPT ![w].pc = "parse",
                                          ![w].line = strip(Val(d))]
            /\ am' = am
            /\ last_call' = last_call
    /\ UNCHANGED <<gm, obs, last_ts, ui, mandala, notified>>

\* _read_loop, lines 337-339 and 367-379: in_waiting or readline raises; the
\* handler calls connection_callback(False, "Connection lost: ...", False),
\* which is on_connection_change
SerialError(w) ==
    /\ threads[w].pc = "loop"
    /\ reading(am)
    /\ am' = connection_lost(am)
    /\ last_call' = Call("on_connection_change", gm)
    /\ Goto(w, "exit")
    /\ UNCHANGED <<gm, obs, last_ts, ui, mandala, notified>>

\* _read_loop, lines 341-347 and 359-365: int(line), the clock is read and
\* the value stored; a ValueError is skipped
ParseLine(w) ==
    /\ threads[w].pc = "parse"
    /\ LET value == int(threads[w].line) IN
       IF value = None
       THEN Goto(w, "loop") /\ am' = am
       ELSE \E current_time \in ReaderTimes :
              /\ threads[w].t < current_time
              /\ current_time <= threads[w].t + 2
              /\ am' = [am EXCEPT
                        !.data_buffer = deque_append(@, Val(value))]
              /\ threads' = [threads EXCEPT ![w].pc = "append_ts",
                                            ![w].t = current_time,
                                            ![w].v = Val(value)]
    /\ UNCHANGED <<gm, obs, last_call, last_ts, ui, mandala, notified>>

\* _read_loop, line 348: timestamps.append(current_time)
AppendTimestamp(w) ==
    /\ threads[w].pc = "append_ts"
    /\ am' = [am EXCEPT !.timestamps = deque_append(@, threads[w].t)]
    /\ Goto(w, "data_callback")
    /\ UNCHANGED <<gm, obs, last_call, last_ts, ui, mandala, notified>>

\* _read_loop, lines 356-365: data_callback(current_time, value), which is
\* on_new_data and forwards nothing while the game is idle
DataCallback(w) ==
    /\ threads[w].pc = "data_callback"
    /\ gm.state = STATE_IDLE
    /\ last_call' = Call("on_new_data", gm)
    /\ Goto(w, "loop")
    /\ UNCHANGED <<gm, obs, last_ts, am, ui, mandala, notified>>

\* update_plot on the main thread calls get_recent_data() while connected;
\* get_recent_data, lines 397-412: the test of data_buffer and the copy
\* list(self.timestamps)
GetRecentDataTimestamps ==
    /\ ui.pc = "mainloop"
    /\ am.connected
    /\ ret' = Some([timestamps |-> IF am.data_buffer = <<>> THEN <<>>
                                   ELSE am.timestamps,
                    values |-> <<>>])
    /\ ui' = [ui EXCEPT !.pc = IF am.data_buffer = <<>> THEN "update_plot"
                               ELSE "get_recent_data"]
    /\ UNCHANGED <<gm, obs, last_call, last_ts, am, threads, ppg, cm, notified>>

\* get_recent_data, lines 413-421: the copy list(self.data_buffer) and the
\* return to update_plot
GetRecentDataValues ==
    /\ ui.pc = "get_recent_data"
    /\ ret' = Some([Val(ret) EXCEPT !.values = am.data_buffer])
    /\ ui' = [ui EXCEPT !.pc = "update_plot"]
    /\ UNCHANGED <<gm, obs, last_call, last_ts, am, threads, ppg, cm, notified>>

\* update_plot, lines 710-760: the two lists are drawn and dropped
UpdatePlot ==
    /\ ui.pc = "update_plot"
    /\ ret' = None
    /\ ui' = [ui EXCEPT !.pc = "mainloop"]
    /\ UNCHANGED <<gm, obs, last_call, last_ts, am, threads, ppg, cm, notified>>

SerialReader(w) ==
    \/ ReadLine(w) \/ DecodeLine(w) \/ ParseLine(w) \/ AppendTimestamp(w)
    \/ DataCallback(w) \/ SerialError(w) \/ ReadNoSample(w)
    \/ ReadLoopEnds(w) \/ ReadLoopExit(w)

ReaderNext ==
    \/ CallerConnect \/ CallerStartReading \/ CallerStopReading
    \/ GetRecentDataTimestamps \/ GetRecentDataValues \/ UpdatePlot
    \/ \E w \in ThreadIds : SerialReader(w)

ReaderSpec == ReaderInit /\ [][ReaderNext]_vars

\* no reader is between its two appends
NoAppendPending == \A w \in ThreadIds : threads[w].pc # "append_ts"

\* q is p after one append to a full deque: the oldest entry is gone
OldestDropped(p, q) ==
    /\ Len(q) = 5000
    /\ \A i \in 1..4999 : q[i] = p[i + 1]

\* C18: data_buffer and timestamps never hold more than 5000 entries, hold
\* the same number of entries once an append is complete, timestamps are in
\* non-decreasing order, and an append to a full buffer drops the oldest
\* entry
C18_BuffersBoundedAlignedOrdered ==
    /\ [](/\ Len(am.data_buffer) <= 5000
          /\ Len(am.timestamps) <= 5000
          /\ NoAppendPending => Len(am.data_buffer) = Len(am.timestamps)
          /\ \A i \in 1..(Len(am.timestamps) - 1) :
                 am.timestamps[i] <= am.timestamps[i + 1])
    /\ [][\A w \in ThreadIds :
            /\ (/\ threads[w].pc = "parse"
                /\ threads'[w].pc = "append_ts"
                /\ Len(am.data_buffer) = 5000)
               => /\ OldestDropped(am.data_buffer, am'.data_buffer)
                  /\ am'.data_buffer[5000] = threads'[w].v
            /\ (/\ threads[w].pc = "append_ts"
                /\ threads'[w].pc = "data_callback"
                /\ Len(am.timestamps) = 5000)
               => /\ OldestDropped(am.timestamps, am'.timestamps)
                  /\ am'.timestamps[5000] = threads[w].t]_vars

C18_Witness ==
    /\ NoAppendPending
    /\ Len(am.data_buffer) = 5000
    /\ Len(am.timestamps) = 5000
    /\ am.timestamps[1] = 2
    /\ am.timestamps[5000] = 5001
    /\ am.data_buffer[5000] = 512

\* the line that reader w has received is not an integer
NotAnInteger(w) ==
    \/ /\ threads[w].pc = "decode"
       /\ LET d == decode(threads[w].raw)
          IN d = None \/ int(strip(Val(d))) = None
    \/ threads[w].pc = "parse" /\ int(threads[w].line) = None

\* C20: a reader that has received a line that is not an integer goes on to
\* the next line: its steps on that line raise nothing (it does not leave
\* the loop), change neither the buffers nor connected nor running, and
\* invoke no data callback
C20_InvalidLineSkipped ==
    [][\A w \in ThreadIds :
         (NotAnInteger(w) /\ threads'[w] # threads[w])
         => /\ am' = am
            /\ last_call' = last_call
            /\ threads'[w].pc \in {"parse", "loop"}]_vars

\* the step of reader w leaves the loop by an exception: from the decoding,
\* or from the loop while its test holds
Raised(w) ==
    /\ threads'[w].pc = "exit"
    /\ \/ threads[w].pc = "decode"
       \/ threads[w].pc = "loop" /\ reading(am)

\* C21: when reading raises in the read loop the reader sets connected to
\* false, calls the connection callback and leaves the loop; it then sets
\* running to false and ends; neither step changes the GameManager
C21_ReadErrorDisconnects ==
    /\ [][\A w \in ThreadIds :
            Raised(w) => /\ ~am'.connected
                         /\ last_call' = Call("on_connection_change", gm)
                         /\ gm' = gm]_vars
    /\ [][\A w \in ThreadIds :
            (threads[w].pc = "exit" /\ threads'[w] # threads[w])
            => /\ ~am'.running
               /\ ~is_alive(threads', w)
               /\ gm' = gm]_vars

C21_Witness ==
    /\ last_call.op = "on_connection_change"
    /\ ~am.connected
    /\ ~am.running
    /\ \A w \in ThreadIds : ~is_alive(threads, w)
    /\ Len(am.data_buffer) = 1

\* C23: the two lists that get_recent_data returns to update_plot have the
\* same length
C23_SnapshotAligned ==
    ui.pc = "update_plot"
    => Len(Val(ret).timestamps) = Len(Val(ret).values)

-----------------------------------------------------------------------------
(* PPGProcessor on its own: samples arrive and the heart rate is asked for *)
(* at any moment.                                                          *)

MaxPpgBuffered == 7   \* samples read into data_buffer
MaxEstimates == 2     \* estimates stored in hr_buffer

SamplingRates == {1, 2}
PpgValues == {500, 600}

HeartInit ==
    /\ gm = GameManager
    /\ obs = NoObs
    /\ last_call = Call("__init__", GameManager)
    /\ last_ts = None
    /\ am = ArduinoManager(TRUE)
    /\ threads = [w \in ThreadIds |-> NotAlive]
    /\ ui = UIManager
    /\ \E sampling_rate \in SamplingRates : ppg = PPGProcessor(sampling_rate)
    /\ ret = None
    /\ cm = ChallengeManager
    /\ notified = <<>>

ReadPpgData ==
    /\ Len(ppg.data_buffer) < MaxPpgBuffered
    /\ \E ppg_value \in PpgValues : ppg' = read_ppg_data(ppg, ppg_value)
    /\ last_call' = Call("read_ppg_data", gm)
    /\ UNCHANGED <<gm, obs, last_ts, sys, ret, cm, notified>>

CalculateHeartRate ==
    /\ LET r == calculate_heart_rate(ppg)
       IN /\ Len(r.self.hr_buffer) <= MaxEstimates
          /\ ppg' = r.self
          /\ ret' = Some(r.ret)
    /\ last_call' = Call("calculate_heart_rate", gm)
    /\ UNCHANGED <<gm, obs, last_ts, sys, cm, notified>>

HeartNext == ReadPpgData \/ CalculateHeartRate

HeartSpec == HeartInit /\ [][HeartNext]_vars

\* C19: a calculate_heart_rate call on a data buffer of fewer than
\* 3 * sampling_rate samples returns 70 and leaves the heart-rate history
\* as it was
C19_FallbackHeartRate ==
    [][(/\ last_call'.op = "calculate_heart_rate"
        /\ Len(ppg.data_buffer) < 3 * ppg.sampling_rate)
       => /\ ret' = Some(Rat(70, 1))
          /\ ppg'.hr_buffer = ppg.hr_buffer
          /\ ppg' = ppg]_vars

C19_Witness ==
    /\ last_call.op = "calculate_heart_rate"
    /\ ppg.sampling_rate = 2
    /\ Len(ppg.data_buffer) = 5
    /\ ret = Some(Rat(70, 1))
    /\ ppg.hr_buffer = <<>>

-----------------------------------------------------------------------------
(* ChallengeManager on its own: attempts are set up, started once each and *)
(* updated at any moment while the clock advances.  last_ts is the clock.  *)

MaxClock == 8000          \* the clock stops at 80 s
MaxActiveUpdates == 3     \* samples read by update() calls

ClockSteps == {500, 3000}
ChallengeTypes == {"fire", "wave", "lightning"}

ChallengeInit ==
    /\ gm = GameManager
    /\ obs = NoObs
    /\ last_call = Call("__init__", GameManager)
    /\ last_ts = Some(0)
    /\ am = ArduinoManager(TRUE)
    /\ threads = [w \in ThreadIds |-> NotAlive]
    /\ ui = UIManager
    /\ ppg = PPGProcessor(1)
    /\ ret = None
    /\ cm = ChallengeManager
    /\ notified = <<>>

\* time passes
ClockAdvance ==
    /\ \E d \in ClockSteps :
          /\ Val(last_ts) + d <= MaxClock
          /\ last_ts' = Some(Val(last_ts) + d)
    /\ last_call' = Call("time", gm)
    /\ UNCHANGED <<gm, obs, sys, mandala, notified>>

SetupChallenge ==
    /\ \E challenge_type \in ChallengeTypes :
           cm' = setup_challenge(challenge_type)
    /\ last_call' = Call("setup_challenge", gm)
    /\ UNCHANGED <<gm, obs, last_ts, sys, ppg, ret, notified>>

\* start_challenge, once per attempt
StartChallenge ==
    /\ cm.active
    /\ cm.phase = "setup"
    /\ LET r == start_challenge(cm, ppg, Val(last_ts))
       IN cm' = r.self /\ ppg' = r.ppg
    /\ last_call' = Call("start_challenge", gm)
    /\ UNCHANGED <<gm, obs, last_ts, sys, ret, notified>>

\* the objects and the returned value after an update() call
Updated(r) ==
    /\ Len(r.ppg.data_buffer) <= MaxActiveUpdates
    /\ Len(r.ppg.hr_buffer) <= MaxEstimates
    /\ cm' = r.self
    /\ ppg' = r.ppg
    /\ ret' = r.ret

Update ==
    /\ \E ppg_value \in PpgValues :
          Updated(update(cm, ppg, Val(last_ts), ppg_value))
    /\ last_call' = Call("update", gm)
    /\ UNCHANGED <<gm, obs, last_ts, sys, notified>>

ChallengeNext == ClockAdvance \/ SetupChallenge \/ StartChallenge \/ Update

ChallengeSpec == ChallengeInit /\ [][ChallengeNext]_vars

\* C24: an update() call returns 'completed' exactly when it moves the phase
\* from active to complete, and None otherwise; the phase changes only from
\* setup to countdown, from countdown to active and from active to
\* complete, or to setup by a new setup_challenge
C24_CompletedOnce ==
    /\ [][last_call'.op = "update"
          => /\ ret' = IF cm.phase = "active" /\ cm'.phase = "complete"
                       THEN Some("completed") ELSE None
             /\ cm.phase = "complete" => cm' = cm]_vars
    /\ [][cm'.phase # cm.phase
          => \/ last_call'.op = "setup_challenge" /\ cm'.phase = "setup"
             \/ <<cm.phase, cm'.phase>> \in
                    {<<"setup", "countdown">>, <<"countdown", "active">>,
                     <<"active", "complete">>}]_vars

C24_Witness ==
    /\ last_call.op = "update"
    /\ cm.phase = "complete"
    /\ ret = None
    /\ cm.type = "fire"
    /\ Len(ppg.hr_buffer) >= 1


-----------------------------------------------------------------------------
(* GameManager under other configurations: the durations are plain attributes
   assigned in __init__ (game_logic.py lines 33-45); ConfigSpec runs the
   operations of Spec from a manager whose durations are drawn from
   Configurations, the shipped one and the three with a ramp window of
   length zero *)

Configurations ==
    { [fire_max_duration |-> f, wave_transition_time |-> t,
       wave_max_duration |-> w] :
          <<f, t, w>> \in { <<fire_max_duration, wave_transition_time,
                              wave_max_duration>>,
                            <<challenge_start_time, wave_transition_time,
                              wave_max_duration>>,
                            <<fire_max_duration, challenge_start_time,
                              wave_max_duration>>,
                            <<fire_max_duration, wave_transition_time,
                              wave_transition_time>> } }

\* __init__ with the durations of configuration; nothing is validated
configured(configuration) ==
    [GameManager EXCEPT
        !.fire_max_duration = configuration.fire_max_duration,
        !.wave_transition_time = configuration.wave_transition_time,
        !.wave_max_duration = configuration.wave_max_duration,
        !.max_duration = configuration.fire_max_duration]

ConfigInit ==
    /\ \E configuration \in Configurations :
          /\ gm = configured(configuration)
          /\ last_call = Call("__init__", configured(configuration))
    /\ obs = NoObs
    /\ last_ts = None
    /\ am = ArduinoManager(TRUE)
    /\ threads = [w \in ThreadIds |-> NotAlive]
    /\ ui = UIManager
    /\ MandalaInit
    /\ notified = <<>>

ConfigSpec == ConfigInit /\ [][Next]_vars

-----------------------------------------------------------------------------
(* Fake-data mode: ArduinoManager(use_fake_data=True) generates the samples
   itself. FakeSpec is one user with the action button and the generator
   loop of _read_loop (lines 290-332), whose clock is read every FakeStep and
   whose random.randint(-10, 10) is drawn from Noise *)

fake_data_base == 575
fake_data_calibration_end == 1000
fake_data_game_end == 4000
fake_data_wave_transition == 4000
fake_data_wave_end == 7000

FakeStep == 500
MaxFakeTime == 4500
Noise == {-10, 0, 10}

\* max(0.0, min(1.0, (current_time - from) / duration)) as the numerator over
\* duration
progress(current_time, from, duration) ==
    Max(0, Min(duration, current_time - from))

\* _generate_fake_data with the drawn noise; int() of a positive number
_generate_fake_data(a, current_time, noise) ==
    LET value == fake_data_base + noise IN
    IF current_time <= fake_data_calibration_end
    THEN [self |-> a, ret |-> value]
    ELSE
    LET mode == IF a.fake_data_game_mode = None
                THEN IF current_time > fake_data_game_end
                     THEN MODE_WAVE ELSE MODE_FIRE
                ELSE Val(a.fake_data_game_mode)
        b == [a EXCEPT !.fake_data_game_mode = Some(mode)]
        fire == fake_data_game_end - fake_data_calibration_end
        up == fake_data_wave_transition - fake_data_calibration_end
        down == fake_data_wave_end - fake_data_wave_transition
    IN
    IF mode = MODE_FIRE
    THEN [self |-> b,
          ret |-> (value * fire + 60 * progress(current_time,
                       fake_data_calibration_end, fire)) \div fire]
    ELSE IF current_time <= fake_data_wave_transition
    THEN [self |-> b,
          ret |-> (value * up + 60 * progress(current_time,
                       fake_data_calibration_end, up)) \div up]
    ELSE [self |-> b,
          ret |-> ((value + 60) * down - 80 * progress(current_time,
                       fake_data_wave_transition, down)) \div down]

FakeInit ==
    /\ gm = GameManager
    /\ obs = NoObs
    /\ last_call = Call("__init__", GameManager)
    /\ last_ts = None
    /\ am = ArduinoManager(FALSE)
    /\ threads = [w \in ThreadIds |-> NotAlive]
    /\ ui = UIManager
    /\ MandalaInit
    /\ notified = <<>>

\* handle_action_button, button "Start": connect and start_reading in fake
\* mode (lines 67-68 and 154-176), then start_game; the new generator loop
\* takes its start_time and forgets the game mode (lines 287 and 292)
FakeStart ==
    /\ ui.action_button = "Start"
    /\ am' = [clear_data(am) EXCEPT !.connected = TRUE, !.running = TRUE,
                                    !.fake_data_game_mode = None]
    /\ last_ts' = None
    /\ gm' = start_game(gm)
    /\ notified' = start_game_notifies(gm)
    /\ ui' = [ui EXCEPT !.action_button = "Stop"]
    /\ last_call' = Call("start_game", gm)
    /\ UNCHANGED <<obs, threads, mandala>>

\* handle_action_button, button "Stop": stop_reading, then reset_game
FakeStop ==
    /\ ui.action_button = "Stop"
    /\ am' = [am EXCEPT !.running = FALSE]
    /\ gm' = reset_game(gm)
    /\ notified' = reset_game_notifies(gm)
    /\ ui' = [ui EXCEPT !.action_button = "Clear"]
    /\ last_call' = Call("reset_game", gm)
    /\ UNCHANGED <<obs, last_ts, threads, mandala>>

\* handle_action_button, button "Clear"
FakeClear ==
    /\ ui.action_button = "Clear"
    /\ am' = clear_data(am)
    /\ ui' = [ui EXCEPT !.action_button = "Start"]
    /\ last_call' = Call("clear_data", gm)
    /\ UNCHANGED <<gm, obs, last_ts, threads, mandala, notified>>

\* one turn of the generator loop, lines 295-316: the sample is generated and
\* stored, and on_new_data hands it to process_data_point unless the game is
\* idle; on_game_state_change stops the reading when the game completes
FakeSample ==
    /\ am.running /\ am.connected
    /\ \E noise \in Noise :
        LET current_time == IF last_ts = None THEN 0
                            ELSE Val(last_ts) + FakeStep
            f == _generate_fake_data(am, current_time, noise)
            a == [f.self EXCEPT
                     !.data_buffer = deque_append(@, f.ret),
                     !.timestamps = deque_append(@, current_time)]
            g == IF gm.state # STATE_IDLE
                 THEN process_data_point(gm, current_time, f.ret) ELSE gm
            n == IF gm.state # STATE_IDLE
                 THEN process_data_point_notifies(gm, current_time, f.ret)
                 ELSE <<>>
        IN /\ current_time <= MaxFakeTime
           /\ last_ts' = Some(current_time)
           /\ gm' = g
           /\ notified' = n
           /\ am' = IF n = <<STATE_COMPLETE>>
                    THEN [a EXCEPT !.running = FALSE] ELSE a
           /\ ui' = IF n = <<STATE_COMPLETE>>
                    THEN [ui EXCEPT !.action_button = "Clear"] ELSE ui
           /\ last_call' = Call("_generate_fake_data", gm)
    /\ UNCHANGED <<obs, threads, mandala>>

FakeNext == FakeStart \/ FakeStop \/ FakeClear \/ FakeSample

FakeSpec == FakeInit /\ [][FakeNext]_vars

\* C28 (as claimed): in a fire game on fake data, whatever noise is drawn
\* in the calibration and in the challenge, the sample generated at the end
\* of the game (progress 1) is at or above the target of that moment,
\* baseline + 50 with the baseline the mean of the calibration samples
C28_FakeFireEndsAboveTarget ==
    (/\ last_call = [op |-> "_generate_fake_data", from |-> STATE_CHALLENGE]
     /\ gm.state = STATE_COMPLETE
     /\ gm.game_mode = MODE_FIRE)
    => RatGeqInt(Val(gm.current_value),
                 RatAdd(Val(gm.baseline_value), Rat(ramp_delta, 1)))

====
